---- MODULE Spec2Model ----
(***************************************************************************)
(* Model of the chat services of kwassist:                                 *)
(*   chat-api-doc.ts    the document variant and its citation rewriter,    *)
(*   chat-api-web.ts    the web variant and its page scraping fan-out,     *)
(*   chat-api-simple.ts the simple variant.                                *)
(*                                                                         *)
(* Text is a sequence of tokens.  Every token stands for a fixed piece of  *)
(* text; the pieces are chosen so that the strings the code searches for   *)
(* ("{% citation", "/%}", the pattern /{%\s*citation/) can only match on   *)
(* token boundaries, and a chunk boundary may fall between any two tokens. *)
(***************************************************************************)
EXTENDS Integers, Sequences, FiniteSets, TLC

VARIABLES
    relevantDocuments,  \* chat-api-doc.ts:96   result of findRelevantDocuments
    completion,         \* text the completion stream has delivered so far
    buffer,             \* chat-api-doc.ts:160  let buffer = ''
    forwarded,          \* concatenation of everything passed to controller.enqueue
    last,               \* the latest transformer call: its input and its enqueues
    streamState,        \* "open" until flush() has run, then "ended"
    searchValue,        \* chat-api-web.ts:94   searchResult.webPages.value
    task,               \* chat-api-web.ts:94   where each page's async callback stands
    browserOpen,        \* chat-api-web.ts:96   whether the page's browser is running
    settled,            \* the outcome of each page's promise
    settleOrder,        \* the pages in the order their promises settled
    webPageContents,    \* chat-api-web.ts:93   const webPageContents
    webStage,           \* how far ChatAPIWeb has come from line 93 on
    variant,            \* which handler serves each request of the thread
    at,                 \* the awaited call each handler stands at
    phase,              \* handler, returned, streaming, callback or completed
    outcome,            \* what the handler returned to its caller
    history,            \* the messages of the thread in the history store
    message,            \* chat-api-web.ts:70   lastHumanMessage.content
    now,                \* chat-api-web.ts:21   the instant new Date() reads
    serverOffset,       \* the offset of the server's local time from UTC
    jpDateTime,         \* chat-api-web.ts:66   const jpDateTime
    optimizedQuery,     \* chat-api-web.ts:70   const optimizedQuery
    freshness,          \* chat-api-web.ts:75   the freshness option of SearchWeb
    queryStage,         \* how far ChatAPIWeb has come from line 66 to line 77
    chatDoc,            \* chat-api-doc.ts:91   const chatDoc = props.chatDoc
    searchCalls,        \* the calls of similaritySearchVectorWithScore so far
    retrievalStage,     \* how far findRelevantDocuments has come
    searchResult,       \* chat-api-web.ts:74   the shape of searchResult
    Prompt,             \* chat-api-web.ts:246  const Prompt
    completionCalls,    \* the calls of openAI.chat.completions.create so far
    createCall,         \* props.chatAPIModel and the model each handler called
    topHistory          \* chat-api-simple.ts:32 const topHistory of each handler

rwVars == <<relevantDocuments, completion, buffer, forwarded, last, streamState>>

pVars == <<searchResult, Prompt, completionCalls>>

evVars == <<searchValue, task, browserOpen, settled, settleOrder,
            webPageContents, webStage, pVars>>

hVars == <<variant, at, phase, outcome, history, createCall, topHistory>>

qVars == <<message, now, serverOffset, jpDateTime, optimizedQuery, freshness,
           queryStage>>

sVars == <<chatDoc, searchCalls, retrievalStage>>

vars == <<rwVars, evVars, hVars, qVars, sVars>>

\* What the actions of one part leave alone.
RewriterOnly == UNCHANGED <<evVars, hVars, qVars, sVars>>
EvidenceOnly == UNCHANGED <<rwVars, hVars, qVars, sVars>>
HandlersOnly == UNCHANGED <<rwVars, evVars, qVars, sVars>>
EnricherOnly == UNCHANGED <<rwVars, evVars, hVars, sVars>>
SelectorOnly == UNCHANGED <<evVars, hVars, qVars>>

----------------------------------------------------------------------------
(* Bounds of the model *)

\* tokens in one completion
MaxInput == 6
\* documents returned by one similarity search
MaxDocs == 2
\* pages in one web search result
MaxPages == 2
\* requests on one chat thread
MaxRequests == 2
\* pieces of text in one user message
MaxMessage == 2
\* hours after the first one at which a request may arrive
MaxHours == 23
\* pieces of text in one scope value
MaxScope == 2

----------------------------------------------------------------------------
(* Text *)

OpenBrace == "{%"
Blank == " "
CitationWord == "citation"
CloseToken == "/%}"
Other == "x"

\* The pieces of text a completion is made of.
Tokens == {OpenBrace, Blank, CitationWord, CloseToken, Other}

\* "{% citation", the argument of buffer.includes at line 169
OPEN == <<OpenBrace, Blank, CitationWord>>

\* "/%}", the argument of includes at line 170 and of indexOf at line 184
CLOSE == <<CloseToken>>

\* The length of "/%}" (3 characters in the source) counted in tokens.
CloseLen == 1

\* String.prototype.slice(from): the text from 0-based position `from` on.
Slice(s, from) == SubSeq(s, from + 1, Len(s))

\* Whether pat occurs in s at 0-based position i.
OccursAt(s, pat, i) ==
    /\ i >= 0
    /\ i + Len(pat) <= Len(s)
    /\ SubSeq(s, i + 1, i + Len(pat)) = pat

\* String.prototype.indexOf: the first 0-based position of pat in s, or -1.
IndexOf(s, pat) ==
    IF \E i \in 0..Len(s) : OccursAt(s, pat, i)
    THEN CHOOSE i \in 0..Len(s) :
            /\ OccursAt(s, pat, i)
            /\ \A j \in 0..(i - 1) : ~OccursAt(s, pat, j)
    ELSE -1

\* String.prototype.includes
Includes(s, pat) == IndexOf(s, pat) >= 0

\* The length of the match of /{%\s*citation/ that starts at 0-based position
\* i of s, or 0 when none starts there: "{%", any run of blanks, "citation".
RECURSIVE BlankRun(_, _)
BlankRun(s, i) ==
    IF i + 1 <= Len(s) /\ s[i + 1] = Blank THEN 1 + BlankRun(s, i + 1) ELSE 0

OpenMatchLen(s, i) ==
    IF i + 1 <= Len(s) /\ s[i + 1] = OpenBrace
    THEN LET b == BlankRun(s, i + 1)
             w == i + 1 + b
         IN IF w + 1 <= Len(s) /\ s[w + 1] = CitationWord THEN b + 2 ELSE 0
    ELSE 0

\* String.prototype.split(/{%\s*citation/): the pieces of s between the
\* successive leftmost matches of the pattern.
RECURSIVE SplitFrom(_, _, _)
SplitFrom(s, start, i) ==
    IF i >= Len(s)
    THEN <<Slice(s, start)>>
    ELSE LET m == OpenMatchLen(s, i)
         IN IF m > 0
            THEN <<SubSeq(s, start + 1, i)>> \o SplitFrom(s, i + m, i + m)
            ELSE SplitFrom(s, start, i + 1)

SplitOpen(s) == SplitFrom(s, 0, 0)

----------------------------------------------------------------------------
(* Retrieved documents and the citation data built from them *)

\* A missing field (undefined or "") is the empty string: both are falsy.
Missing == ""

Sources == {Missing, "src"}
DeptNames == {Missing, "deptA"}
Ids == {"1", "2"}

Documents == [source : Sources, deptName : DeptNames, id : Ids]

DocLists(n) == UNION {[1..k -> Documents] : k \in 0..n}

\* A filter that looks at deptName alone.
IsValidDocDeptNameOnly(doc) == doc.deptName # Missing

\* doc.source && doc.deptName
IsValidDoc(doc) == doc.source # Missing /\ doc.deptName # Missing

RECURSIVE FilterValid(_)
FilterValid(docs) ==
    IF docs = <<>> THEN <<>>
    ELSE (IF IsValidDoc(Head(docs)) THEN <<Head(docs)>> ELSE <<>>)
         \o FilterValid(Tail(docs))

\* const citationData = relevantDocuments.filter(...).map(...)
CitationDataOf(docs) ==
    LET valid == FilterValid(docs)
    IN [i \in 1..Len(valid) |->
          [name |-> valid[i].deptName, id |-> valid[i].id,
           source |-> valid[i].source]]

citationData == CitationDataOf(relevantDocuments)

UnknownDocument == "Unknown Document"
PlaceholderItem == [name |-> "Document Not Found", id |-> "unknown"]

\* validCitationData: the items normalised, or the placeholder when there are none
ValidCitationData(cd) ==
    LET items == [i \in 1..Len(cd) |->
                    [name |-> IF cd[i].name # Missing THEN cd[i].name
                              ELSE UnknownDocument,
                     id |-> cd[i].id]]
    IN IF Len(items) = 0 THEN <<PlaceholderItem>> ELSE items

\* JSON.stringify of one {name, id} object
JsonItem(item) ==
    <<"{\"name\":\"", item.name, "\",\"id\":\"", item.id, "\"}">>

\* JSON.stringify of an array of {name, id} objects
RECURSIVE JsonItems(_)
JsonItems(items) ==
    IF items = <<>> THEN <<>>
    ELSE IF Len(items) = 1 THEN JsonItem(items[1])
    ELSE JsonItem(items[1]) \o <<",">> \o JsonItems(Tail(items))

JsonStringify(items) == <<"[">> \o JsonItems(items) \o <<"]">>

\* `{% citation items=${JSON.stringify(validCitationData)} /%}`
NewCitation(cd) ==
    OPEN \o <<" items=">> \o JsonStringify(ValidCitationData(cd))
         \o <<Blank>> \o CLOSE

----------------------------------------------------------------------------
(* customTransformer *)

NonEmpty(s) == IF s # <<>> THEN <<s>> ELSE <<>>

\* A pass-through without the reset of the buffer at line 216.
PassThroughKeepsBuffer(buffer1, text) == [buffer |-> buffer1, enq |-> <<text>>]

\* Lines 213-217, the buffer holds no opening token: the chunk is forwarded
\* and the buffer cleared.
PassThrough(buffer1, text) == [buffer |-> <<>>, enq |-> <<text>>]

\* A wait that forwards the text before the opening token and holds the rest.
AwaitCloseForwardsPrefix(buffer1) ==
    [buffer |-> Slice(buffer1, IndexOf(buffer1, OPEN)),
     enq |-> NonEmpty(SubSeq(buffer1, 1, IndexOf(buffer1, OPEN)))]

\* Lines 170-172, an opening token and no closing token: return, with the
\* buffer kept whole and nothing enqueued.
AwaitClose(buffer1) == [buffer |-> buffer1, enq |-> <<>>]

\* Lines 175-212, an opening and a closing token are in the buffer.
ReplaceCitation(buffer1, cd) ==
    LET parts == SplitOpen(buffer1)
    IN IF Len(parts) > 1
       THEN LET first == NonEmpty(parts[1])
                citationPart == parts[2]
                citationEnd == IndexOf(citationPart, CLOSE) + CloseLen
            IN IF citationEnd > CloseLen - 1
               THEN LET rest == Slice(citationPart, citationEnd)
                    IN [buffer |-> <<>>,
                        enq |-> first \o <<NewCitation(cd)>> \o NonEmpty(rest)]
               ELSE [buffer |-> buffer1, enq |-> first]
       ELSE [buffer |-> buffer1, enq |-> <<>>]

\* transform(chunk, controller): the buffer it leaves and the texts it
\* enqueues, in order.
TransformResult(buf, text, cd) ==
    LET buffer1 == buf \o text
    IN IF Includes(buffer1, OPEN)
       THEN IF ~Includes(buffer1, CLOSE)
            THEN AwaitClose(buffer1)
            ELSE ReplaceCitation(buffer1, cd)
       ELSE PassThrough(buffer1, text)

\* flush(controller): the texts it enqueues.
FlushResult(buf) == NonEmpty(buf)

RECURSIVE Concat(_)
Concat(ss) == IF ss = <<>> THEN <<>> ELSE Head(ss) \o Concat(Tail(ss))

NoCall == [op |-> "none", text |-> <<>>, before |-> <<>>, enq |-> <<>>]

\* transform(chunk, controller) runs on a chunk whose decoded text is `text`.
\* (OpenAIStream encodes every text delta whole, so a chunk decodes to the
\* delta it was made from.)
TransformStep(text) ==
    /\ streamState = "open"
    /\ LET r == TransformResult(buffer, text, citationData)
       IN /\ buffer' = r.buffer
          /\ forwarded' = forwarded \o Concat(r.enq)
          /\ last' = [op |-> "transform", text |-> text,
                      before |-> buffer, enq |-> r.enq]
    /\ completion' = completion \o text
    /\ UNCHANGED <<relevantDocuments, streamState>>
    /\ RewriterOnly

\* One chunk of the completion stream passes through the transformer; the
\* completion model may write any text and the stream may cut it anywhere.
Transform ==
    \E k \in 1..(MaxInput - Len(completion)) :
       \E text \in [1..k -> Tokens] : TransformStep(text)

\* A completion that follows the prompt: prose, one citation marker with the
\* model's own items, prose.
ModelAnswer ==
    <<Other>> \o OPEN \o <<Other, CloseToken, Other>>

\* The next chunk of ModelAnswer passes through the transformer; the stream
\* may cut the answer anywhere.
ScriptedTransform ==
    \E k \in 1..(Len(ModelAnswer) - Len(completion)) :
       TransformStep(SubSeq(ModelAnswer, Len(completion) + 1,
                            Len(completion) + k))

\* flush(controller): the completion stream ends.
Flush ==
    /\ streamState = "open"
    /\ LET enq == FlushResult(buffer)
       IN /\ forwarded' = forwarded \o Concat(enq)
          /\ last' = [op |-> "flush", text |-> <<>>, before |-> buffer, enq |-> enq]
    /\ streamState' = "ended"
    /\ UNCHANGED <<relevantDocuments, completion, buffer>>
    /\ RewriterOnly

\* Lines 102-113: the context text, one part for every document that has
\* both a source and a deptName, in retrieval order.
ContextOf(docs) == FilterValid(docs)

\* The text onCompletion stores, of the forwarded text.
StoredContentForwarded(completionText, forwardedText) == forwardedText

\* Lines 227-242: onCompletion is a callback of OpenAIStream, upstream of
\* pipeThrough(customTransformer); its argument is the text of the completion.
StoredContent(completionText, forwardedText) == completionText

\* Lines 228-241: the completion stream has ended and OpenAIStream has called
\* onCompletion, which appends the user message and then the assistant
\* message with the context.
RecordCompletion ==
    /\ streamState = "ended"
    /\ history = <<>>
    /\ history' =
          << [role |-> "user", content |-> <<"lastHumanMessage">>,
              context |-> <<>>],
             [role |-> "assistant",
              content |-> StoredContent(completion, forwarded),
              context |-> ContextOf(relevantDocuments)] >>
    /\ UNCHANGED <<rwVars, evVars, qVars, sVars, variant, at, phase, outcome,
                   createCall, topHistory>>

RewriterInit ==
    /\ completion = <<>>
    /\ buffer = <<>>
    /\ forwarded = <<>>
    /\ last = NoCall
    /\ streamState = "open"

----------------------------------------------------------------------------
(* ChatAPIWeb: the page scraping fan-out, chat-api-web.ts:93-215 *)

\* A search result: its position stands for url, name and snippet;
\* datePublished may be absent.
SearchValues(n) ==
    UNION {{v \in [1..k -> [id : 1..k, datePublished : BOOLEAN]] :
               \A i \in 1..k : v[i].id = i} : k \in 0..n}

NoRecord == [page |-> 0, url |-> "", content |-> "", publishDate |-> ""]

\* page.datePublished ? new Date(page.datePublished).toLocaleString(...) : null
SearchDate(page) == IF page.datePublished THEN "search" ELSE "none"

\* Lines 178-187: the record of a scraped page.  pageDate tells whether the
\* second evaluate found a publish date in the page.
ScrapedRecord(page, pageDate) ==
    [page |-> page.id, url |-> "clean", content |-> "page",
     publishDate |-> IF pageDate THEN "page" ELSE SearchDate(page)]

\* Lines 194-202: the record built from the search result alone.
FallbackRecord(page) ==
    [page |-> page.id, url |-> "raw", content |-> "snippet",
     publishDate |-> SearchDate(page)]

\* Lines 192-203: the outer catch turns every error of the page's callback
\* into a fulfilled promise.
OuterCatch(page) == [status |-> "fulfilled", value |-> FallbackRecord(page)]

Pending == [status |-> "pending", value |-> NoRecord]

\* Promise.all: rejected as soon as one promise is, fulfilled when all are.
PromiseAllState(outcomes) ==
    IF \E i \in DOMAIN outcomes : outcomes[i].status = "rejected"
    THEN "rejected"
    ELSE IF \A i \in DOMAIN outcomes : outcomes[i].status = "fulfilled"
    THEN "fulfilled"
    ELSE "pending"

\* The values in the order in which the promises settled.
PromiseAllValueInSettleOrder(outcomes, order) ==
    [j \in 1..Len(order) |-> outcomes[order[j]].value]

\* Promise.all: the values in the order of the promises, whatever the order
\* in which they settled.
PromiseAllValue(outcomes, order) ==
    [i \in DOMAIN outcomes |-> outcomes[i].value]

\* The page's promise settles.
Settle(i, result) ==
    /\ settled' = [settled EXCEPT ![i] = result]
    /\ settleOrder' = Append(settleOrder, i)

\* The page's callback goes on to its next await.
Goes(i, pc) == task' = [task EXCEPT ![i].pc = pc]

\* An error is thrown inside the inner try: the inner catch runs up to its
\* await browser.close() (line 189).
ToInnerCatch(i) ==
    task' = [task EXCEPT ![i].pc = "closeAfterError", ![i].failed = TRUE]

\* An error is thrown outside the inner try: the outer catch returns.
ToOuterCatch(i) ==
    /\ task' = [task EXCEPT ![i].pc = "done", ![i].failed = TRUE]
    /\ Settle(i, OuterCatch(searchValue[i]))

Collecting(i) == webStage = "collecting" /\ i \in DOMAIN task

\* Line 96: await puppeteer.launch(...) resolves or rejects.
Launch(i) ==
    /\ Collecting(i)
    /\ task[i].pc = "launch"
    /\ \/ /\ Goes(i, "newPage")
          /\ browserOpen' = [browserOpen EXCEPT ![i] = TRUE]
          /\ UNCHANGED <<settled, settleOrder>>
       \/ /\ ToOuterCatch(i)
          /\ UNCHANGED browserOpen
    /\ UNCHANGED <<searchValue, webPageContents, webStage>>
    /\ UNCHANGED pVars
    /\ EvidenceOnly

\* Line 100: await browser.newPage() resolves, or rejects outside the inner try.
NewPage(i) ==
    /\ Collecting(i)
    /\ task[i].pc = "newPage"
    /\ \/ /\ Goes(i, "goto")
          /\ UNCHANGED <<settled, settleOrder>>
       \/ ToOuterCatch(i)
    /\ UNCHANGED <<searchValue, browserOpen, webPageContents, webStage>>
    /\ UNCHANGED pVars
    /\ EvidenceOnly

\* Lines 103-106: await pageInstance.goto(...) resolves, or rejects (timeout).
Goto(i) ==
    /\ Collecting(i)
    /\ task[i].pc = "goto"
    /\ \/ Goes(i, "evaluateText")
       \/ ToInnerCatch(i)
    /\ UNCHANGED <<searchValue, browserOpen, settled, settleOrder,
                   webPageContents, webStage>>
    /\ UNCHANGED pVars
    /\ EvidenceOnly

\* Lines 108-143: the first await pageInstance.evaluate(...).
EvaluateText(i) ==
    /\ Collecting(i)
    /\ task[i].pc = "evaluateText"
    /\ \/ Goes(i, "evaluateDate")
       \/ ToInnerCatch(i)
    /\ UNCHANGED <<searchValue, browserOpen, settled, settleOrder,
                   webPageContents, webStage>>
    /\ UNCHANGED pVars
    /\ EvidenceOnly

\* Lines 146-176: the second await pageInstance.evaluate(...); on success the
\* callback goes on to await browser.close().
EvaluateDate(i) ==
    /\ Collecting(i)
    /\ task[i].pc = "evaluateDate"
    /\ \/ \E found \in BOOLEAN :
             task' = [task EXCEPT ![i].pc = "close", ![i].pageDate = found]
       \/ ToInnerCatch(i)
    /\ UNCHANGED <<searchValue, browserOpen, settled, settleOrder,
                   webPageContents, webStage>>
    /\ UNCHANGED pVars
    /\ EvidenceOnly

\* Lines 176-187: browser.close() resolves; new URL(page.url) succeeds and the
\* record is returned, or it throws inside the inner try.
Close(i) ==
    /\ Collecting(i)
    /\ task[i].pc = "close"
    /\ browserOpen' = [browserOpen EXCEPT ![i] = FALSE]
    /\ \/ /\ Goes(i, "done")
          /\ Settle(i, [status |-> "fulfilled",
                        value |-> ScrapedRecord(searchValue[i], task[i].pageDate)])
       \/ /\ ToInnerCatch(i)
          /\ UNCHANGED <<settled, settleOrder>>
    /\ UNCHANGED <<searchValue, webPageContents, webStage>>
    /\ UNCHANGED pVars
    /\ EvidenceOnly

\* Lines 188-203: browser.close() of the inner catch resolves, the error is
\* rethrown and the outer catch returns the record.
CloseAfterError(i) ==
    /\ Collecting(i)
    /\ task[i].pc = "closeAfterError"
    /\ browserOpen' = [browserOpen EXCEPT ![i] = FALSE]
    /\ ToOuterCatch(i)
    /\ UNCHANGED <<searchValue, webPageContents, webStage>>
    /\ UNCHANGED pVars
    /\ EvidenceOnly

\* Lines 93, 205-217: await Promise.all(...) settles; fulfilled, ChatAPIWeb
\* goes on into handleChatCompletion, rejected, into its catch.
PromiseAllSettles ==
    /\ webStage = "collecting"
    /\ PromiseAllState(settled) # "pending"
    /\ IF PromiseAllState(settled) = "fulfilled"
       THEN /\ webPageContents' = PromiseAllValue(settled, settleOrder)
            /\ webStage' = "collected"
       ELSE /\ webStage' = "error500"
            /\ UNCHANGED webPageContents
    /\ UNCHANGED <<searchValue, task, browserOpen, settled, settleOrder>>
    /\ UNCHANGED pVars
    /\ EvidenceOnly

\* Lines 257-265: the entry of one evidence record in the summary block.
PromptEntry(page) == "Page" \o ToString(page.page)

\* A prompt that holds the summary block whatever the evidence.
PromptAlwaysSummary(contents) ==
    <<"CurrentTime", "History", "Question", "WebSearchSummary">>
        \o [i \in 1..Len(contents) |-> PromptEntry(contents[i])]
        \o <<"Instructions", "ReferenceFormat">>

\* Lines 246-280: the blocks of the rendered prompt, in order: the current
\* time, the history, the question, then the summary heading with one entry
\* per evidence record or the notice that there are no search results, the
\* instructions and, with evidence, the format of the reference list.
PromptOf(contents) ==
    <<"CurrentTime", "History", "Question">>
        \o (IF Len(contents) > 0
            THEN <<"WebSearchSummary">>
                     \o [i \in 1..Len(contents) |-> PromptEntry(contents[i])]
            ELSE <<"NoSearchResults">>)
        \o <<"Instructions">>
        \o (IF Len(contents) > 0 THEN <<"ReferenceFormat">> ELSE <<>>)

\* Lines 241-282: handleChatCompletion records the user message, renders the
\* prompt and issues the completion call.
IssueCompletion ==
    /\ webStage = "collected"
    /\ webStage' = "completionIssued"
    /\ Prompt' = PromptOf(webPageContents)
    /\ completionCalls' = completionCalls + 1
    /\ UNCHANGED <<searchValue, task, browserOpen, settled, settleOrder,
                   webPageContents, searchResult>>
    /\ EvidenceOnly

\* Line 241: chatHistory.addMessage rejects; the catch of ChatAPIWeb returns
\* the 500 response and no completion call is issued.
AddMessageRejects ==
    /\ webStage = "collected"
    /\ webStage' = "failed500"
    /\ UNCHANGED <<searchValue, task, browserOpen, settled, settleOrder,
                   webPageContents, pVars>>
    /\ EvidenceOnly

\* What bing.SearchWeb may resolve with: nothing, an object without
\* webPages (or webPages without value), an object with webPages.value.
SearchResultShapes == {"null", "noWebPages", "value"}

\* Lines 79-94: SearchWeb has resolved.  With webPages.value, map() has
\* started every page's callback, each up to its await puppeteer.launch(...);
\* without, handleChatCompletion has been entered with the empty list.
EvidenceInit ==
    /\ searchResult \in SearchResultShapes
    /\ searchValue \in IF searchResult = "value" THEN SearchValues(MaxPages)
                       ELSE {<<>>}
    /\ task = [i \in DOMAIN searchValue |->
                  [pc |-> "launch", failed |-> FALSE, pageDate |-> FALSE]]
    /\ browserOpen = [i \in DOMAIN searchValue |-> FALSE]
    /\ settled = [i \in DOMAIN searchValue |-> Pending]
    /\ settleOrder = <<>>
    /\ webPageContents = <<>>
    /\ webStage = IF searchResult = "value" THEN "collecting" ELSE "collected"
    /\ Prompt = <<>>
    /\ completionCalls = 0

\* No web request.
EvidenceIdle ==
    /\ searchValue = <<>>
    /\ task = <<>>
    /\ browserOpen = <<>>
    /\ settled = <<>>
    /\ settleOrder = <<>>
    /\ webPageContents = <<>>
    /\ webStage = "idle"
    /\ searchResult = "null"
    /\ Prompt = <<>>
    /\ completionCalls = 0

\* No document request.
RewriterIdle ==
    /\ relevantDocuments = <<>>
    /\ completion = <<>>
    /\ buffer = <<>>
    /\ forwarded = <<>>
    /\ last = NoCall
    /\ streamState = "idle"

----------------------------------------------------------------------------
(* getJapanDateTime and optimizeSearchQuery, chat-api-web.ts:11-46 *)

\* Time is counted in whole hours.  A Date is the number of hours from
\* 1970-01-01T00:00Z to its instant; a wall-clock reading is the number of
\* hours from 1970-01-01 00:00 on that clock.

\* The offset of Asia/Tokyo from UTC, in hours.
TokyoOffset == 9

\* The day of 2024-12-31, counted from 1970-01-01: requests arrive from
\* 2024-12-31T00:00Z on.
FirstDay == 20088

Instants == {FirstDay * 24 + h : h \in 0..MaxHours}

\* Servers west of Greenwich, on UTC and on Japan time.
ServerOffsets == {-5, 0, TokyoOffset}

\* The proleptic Gregorian date of day number `days`, as Date computes it.
CivilFromDays(days) ==
    LET z == days + 719468
        era == z \div 146097
        doe == z - era * 146097
        yoe == (doe - doe \div 1460 + doe \div 36524 - doe \div 146096) \div 365
        doy == doe - (365 * yoe + yoe \div 4 - yoe \div 100)
        mp == (5 * doy + 2) \div 153
        d == doy - (153 * mp + 2) \div 5 + 1
        m == IF mp < 10 THEN mp + 3 ELSE mp - 9
        y == yoe + era * 400 + (IF m <= 2 THEN 1 ELSE 0)
    IN [year |-> y, month |-> m, day |-> d]

\* date.toLocaleString("en-US", { timeZone: "Asia/Tokyo" }): the reading of
\* the Tokyo wall clock at the instant.
ToLocaleStringTokyo(date) == date + TokyoOffset

\* new Date(text) for a date-time text without zone: the instant at which
\* the server's local clock shows that reading.
ParseAsLocalTime(reading, offset) == reading - offset

\* getJapanDateTime(), with new Date() reading `instant`.
getJapanDateTime(instant, offset) ==
    ParseAsLocalTime(ToLocaleStringTokyo(instant), offset)

\* Date.prototype.getFullYear: the year on the server's local clock.
getFullYear(date, offset) == CivilFromDays((date + offset) \div 24).year

\* Date.prototype.getMonth: the month on the server's local clock, from 0.
getMonth(date, offset) == CivilFromDays((date + offset) \div 24).month - 1

\* A number written with at least two digits.
PadTwo(n) == IF n < 10 THEN "0" \o ToString(n) ELSE ToString(n)

\* date.toISOString().split('T')[0]: the date in UTC as YYYY-MM-DD.
IsoDate(date) ==
    LET c == CivilFromDays(date \div 24)
    IN ToString(c.year) \o "-" \o PadTwo(c.month) \o "-" \o PadTwo(c.day)

\* The pieces of text a message is made of, each named by its reading:
\* ima (now), nichi (day), shuu (week), getsu (month), nen (year), saishin
\* (latest), saikin (recently), kinou (yesterday), honjitsu (today), genzai
\* (at present), chokkin (most recent), ichi (one, the head of ototoi, the day
\* before yesterday).  Ima followed by nichi reads kyou (today), by shuu
\* konshuu (this week), by getsu kongetsu (this month), by nen kotoshi (this
\* year).  WrittenDate is a date written out with month and day, the shortest
\* text the second pattern matches, kept as one piece.
Ima == "ima"
Nichi == "nichi"
Shuu == "shuu"
Getsu == "getsu"
Nen == "nen"
Saishin == "saishin"
Saikin == "saikin"
Kinou == "kinou"
Honjitsu == "honjitsu"
Genzai == "genzai"
Chokkin == "chokkin"
Ichi == "ichi"
WrittenDate == "1-getsu-1-nichi"

MessageTokens == {Ima, Nichi, Shuu, Saishin, Saikin, Kinou, WrittenDate, Other}

Messages == UNION {[1..k -> MessageTokens] : k \in 0..MaxMessage}

\* A pattern is the set of its alternatives, each a text.  The five patterns
\* of lines 12-16: kyou | honjitsu | genzai | saishin; an optional year, a
\* month and a day in digits; kinou | ototoi; konshuu | kongetsu | kotoshi;
\* saikin | chokkin.
DATE_PATTERNS ==
    << {<<Ima, Nichi>>, <<Honjitsu>>, <<Genzai>>, <<Saishin>>},
       {<<WrittenDate>>},
       {<<Kinou>>, <<Ichi, Kinou>>},
       {<<Ima, Shuu>>, <<Ima, Getsu>>, <<Ima, Nen>>},
       {<<Saikin>>, <<Chokkin>>} >>

\* The pattern of lines 39 and 75: saishin | genzai | ima | honjitsu.
ImmediacyPattern == {<<Saishin>>, <<Genzai>>, <<Ima>>, <<Honjitsu>>}

\* RegExp.prototype.test: some alternative occurs in the text.
Test(pattern, text) == \E alt \in pattern : Includes(text, alt)

\* A test of the first pattern alone.
hasDatePatternFirstOnly(text) == Test(DATE_PATTERNS[1], text)

\* DATE_PATTERNS.some(pattern => pattern.test(message))
hasDatePattern(text) ==
    \E i \in 1..Len(DATE_PATTERNS) : Test(DATE_PATTERNS[i], text)

\* Line 35: a blank, the year, nen, the month, getsu.
YearMonthSuffix(date, offset) ==
    <<Blank, ToString(getFullYear(date, offset)), Nen,
      ToString(getMonth(date, offset) + 1), Getsu>>

\* ` after:${jpDate}`
AfterToken(date) == <<Blank, "after:", IsoDate(date)>>

\* optimizeSearchQuery(message, jpDateTime) on a server at `offset`.
optimizeSearchQuery(text, date, offset) ==
    LET query1 == IF hasDatePattern(text)
                  THEN text \o YearMonthSuffix(date, offset)
                  ELSE text
    IN IF Test(ImmediacyPattern, text)
       THEN query1 \o AfterToken(date)
       ELSE query1

\* The freshness option of line 75.
Freshness(text) == IF Test(ImmediacyPattern, text) THEN "Day" ELSE "Week"

\* A date that is not set yet.
NoDate == 0

\* Line 66: const jpDateTime = getJapanDateTime().
GetJapanDateTime ==
    /\ queryStage = "start"
    /\ jpDateTime' = getJapanDateTime(now, serverOffset)
    /\ queryStage' = "timed"
    /\ UNCHANGED <<message, now, serverOffset, optimizedQuery, freshness>>
    /\ EnricherOnly

\* Line 70: const optimizedQuery = optimizeSearchQuery(...).
OptimizeSearchQuery ==
    /\ queryStage = "timed"
    /\ optimizedQuery' = optimizeSearchQuery(message, jpDateTime, serverOffset)
    /\ queryStage' = "optimized"
    /\ UNCHANGED <<message, now, serverOffset, jpDateTime, freshness>>
    /\ EnricherOnly

\* Lines 74-77: bing.SearchWeb(optimizedQuery, { freshness: ..., count: 5 }).
SearchWeb ==
    /\ queryStage = "optimized"
    /\ freshness' = Freshness(message)
    /\ queryStage' = "searched"
    /\ UNCHANGED <<message, now, serverOffset, jpDateTime, optimizedQuery>>
    /\ EnricherOnly

\* A web request arrives with some message at some instant on some server.
EnricherInit ==
    /\ message \in Messages
    /\ now \in Instants
    /\ serverOffset \in ServerOffsets
    /\ jpDateTime = NoDate
    /\ optimizedQuery = <<>>
    /\ freshness = ""
    /\ queryStage = "start"

\* No web request.
EnricherIdle ==
    /\ message = <<>>
    /\ now = NoDate
    /\ serverOffset = 0
    /\ jpDateTime = NoDate
    /\ optimizedQuery = <<>>
    /\ freshness = ""
    /\ queryStage = "idle"

----------------------------------------------------------------------------
(* findRelevantDocuments, chat-api-doc.ts:271-286 *)

\* The pieces of text a scope value is made of: the wildcard word, a word
\* and an apostrophe.
All == "all"
Word == "latest"
Quote == "'"

ScopeTokens == {All, Word, Quote}

\* The values props.chatDoc may have: the request body is not validated.
ScopeValues == UNION {[1..k -> ScopeTokens] : k \in 1..MaxScope}

\* "chatType eq 'doc'"
DocTypeClause == <<"chatType eq ", Quote, "doc", Quote>>

\* Lines 276-278: chatDoc === 'all' ? "chatType eq 'doc'"
\*                : `chatType eq 'doc' and deptName eq '${chatDoc}'`
Filter(scope) ==
    IF scope = <<All>>
    THEN DocTypeClause
    ELSE DocTypeClause \o <<" and deptName eq ", Quote>> \o scope \o <<Quote>>

\* The number of matches asked for at line 281.
MatchCount == 15

\* Lines 276-283: findRelevantDocuments builds the filter and calls
\* similaritySearchVectorWithScore(query, 15, { filter }).
FindRelevantDocuments ==
    /\ retrievalStage = "start"
    /\ searchCalls' = Append(searchCalls,
                             [k |-> MatchCount, filter |-> Filter(chatDoc)])
    /\ retrievalStage' = "searching"
    /\ UNCHANGED <<chatDoc, rwVars>>
    /\ SelectorOnly

\* Lines 281-285: the search answers with some matches and
\* findRelevantDocuments returns them.
SimilaritySearchReturns ==
    /\ retrievalStage = "searching"
    /\ \E docs \in DocLists(MaxDocs) : relevantDocuments' = docs
    /\ retrievalStage' = "returned"
    /\ UNCHANGED <<chatDoc, searchCalls, completion, buffer, forwarded, last,
                   streamState>>
    /\ SelectorOnly

\* A document request arrives with some scope value.
SelectorInit ==
    /\ chatDoc \in ScopeValues
    /\ searchCalls = <<>>
    /\ retrievalStage = "start"

\* No retrieval.
SelectorIdle ==
    /\ chatDoc = <<>>
    /\ searchCalls = <<>>
    /\ retrievalStage = "idle"

----------------------------------------------------------------------------
(* The three request handlers and the history store *)

Variants == {"simple", "web", "doc"}

\* The awaited collaborator calls of a handler in program order; inTry tells
\* whether the call stands inside the handler's try block, throws whether it
\* can reject.
Await(call, inTry) == [call |-> call, inTry |-> inTry, throws |-> TRUE]

\* ChatAPISimple, chat-api-simple.ts:8-71: the try block begins at line 34.
SimpleHandler ==
    << Await("initAndGuardChatSession", FALSE),
       Await("userHashedId", FALSE),
       Await("addMessage", FALSE),
       Await("getMessages", FALSE),
       Await("create", TRUE) >>

\* ChatAPIWeb and handleChatCompletion, chat-api-web.ts:48-330: the try block
\* spans the handler; the page callbacks of Promise.all catch their own errors.
WebHandler ==
    << Await("initAndGuardChatSession", TRUE),
       Await("userHashedId", TRUE),
       Await("getMessages", TRUE),
       Await("SearchWeb", TRUE),
       [call |-> "Promise.all", inTry |-> TRUE, throws |-> FALSE],
       Await("addMessage", TRUE),
       Await("create", TRUE) >>

\* ChatAPIDoc, chat-api-doc.ts:70-258: the try block begins at line 131.
DocHandler ==
    << Await("initAndGuardChatSession", FALSE),
       Await("userHashedId", FALSE),
       Await("getMessages", FALSE),
       Await("similaritySearchVectorWithScore", FALSE),
       Await("create", TRUE) >>

Handler(v) ==
    CASE v = "simple" -> SimpleHandler
      [] v = "web" -> WebHandler
      [] v = "doc" -> DocHandler

\* The values of props.chatAPIModel.
ModelFlags == {"GPT-3", "GPT-4"}

\* chat-api-simple.ts:10-16 and chat-api-doc.ts:78-84: the model chosen by
\* the flag is overwritten; chat-api-web.ts:54-55: it is not.
ChatAPIModel(v, flag) ==
    IF v = "web"
    THEN (IF flag = "GPT-3" THEN "gpt-35-turbo-16k" ELSE "gpt-4o-mini")
    ELSE LET chosen == IF flag = "GPT-3" THEN "gpt-35-turbo-16k" ELSE "gpt-4o"
             overwritten == "gpt-4o-mini"
         IN overwritten

\* No completion call yet.
NoCreate == [flag |-> "", model |-> ""]

\* openAI.chat.completions.create({ ..., model: chatAPIModel, ... }) is
\* called by the handler of request r; the request came with some flag.
Create(r) ==
    \E flag \in ModelFlags :
        createCall' = [createCall EXCEPT ![r] =
                          [flag |-> flag,
                           model |-> ChatAPIModel(variant[r], flag)]]

\* A callback that records the answer before the question.
OnCompletionAssistantFirst(v) ==
    IF v = "doc" THEN <<"assistant", "user">> ELSE <<"assistant">>

\* The number of messages of the thread that go into the prompt.
WindowSize == 30

\* Array.prototype.slice(start, end) for 0 <= end <= length: a negative start
\* counts from the end of the array and stops at its beginning.
ArraySlice(array, start, end) ==
    LET from == IF start < 0
                THEN (IF Len(array) + start < 0 THEN 0 ELSE Len(array) + start)
                ELSE (IF start > Len(array) THEN Len(array) ELSE start)
    IN SubSeq(array, from + 1, end)

\* history.slice(history.length - 30, history.length)
TopHistory(messages) ==
    ArraySlice(messages, Len(messages) - WindowSize, Len(messages))

\* The messages of earlier requests a thread starts with, n of them.
PriorThread(n) ==
    [k \in 1..n |-> [role |-> IF k % 2 = 1 THEN "user" ELSE "assistant",
                     req |-> 0]]

\* A store that keeps only the newest message.
AddMessageReplacing(h, role, r) == <<[role |-> role, req |-> r]>>

\* The roles of the messages onCompletion appends, in order.
OnCompletion(v) == IF v = "doc" THEN <<"user", "assistant">> ELSE <<"assistant">>

\* chatHistory.addMessage: the store appends the message to the thread.
AddMessage(h, role, r) == Append(h, [role |-> role, req |-> r])

\* The call the handler of request r awaits.
Awaited(r) == Handler(variant[r])[at[r]]

\* The awaited call of request r resolves and the handler runs to its next
\* await, or, after create, to its return of the streaming response.
\* The window read by getMessages is the handler's local topHistory until the
\* handler returns; the simple handler passes it to create in the step in
\* which it is read.
Resolve(r) ==
    /\ phase[r] = "handler"
    /\ history' = IF Awaited(r).call = "addMessage"
                  THEN AddMessage(history, "user", r)
                  ELSE history
    /\ IF at[r] = Len(Handler(variant[r]))
       THEN /\ phase' = [phase EXCEPT ![r] = "streaming"]
            /\ outcome' = [outcome EXCEPT ![r] = "stream"]
            /\ at' = [at EXCEPT ![r] = 1]
       ELSE /\ at' = [at EXCEPT ![r] = at[r] + 1]
            /\ UNCHANGED <<phase, outcome>>
    /\ IF at[r] < Len(Handler(variant[r]))
          /\ Handler(variant[r])[at[r] + 1].call = "create"
       THEN Create(r)
       ELSE UNCHANGED createCall
    /\ topHistory' =
          IF Awaited(r).call = "getMessages"
          THEN [topHistory EXCEPT ![r] = TopHistory(history)]
          ELSE IF at[r] = Len(Handler(variant[r]))
          THEN [topHistory EXCEPT ![r] = <<>>]
          ELSE topHistory
    /\ UNCHANGED variant
    /\ HandlersOnly

\* The awaited call of request r rejects: inside the try block the catch
\* returns the 500 response, outside it the handler's promise rejects.
Reject(r) ==
    /\ phase[r] = "handler"
    /\ Awaited(r).throws
    /\ phase' = [phase EXCEPT ![r] = "returned"]
    /\ outcome' = [outcome EXCEPT ![r] = IF Awaited(r).inTry THEN "500"
                                         ELSE "escaped"]
    /\ topHistory' = [topHistory EXCEPT ![r] = <<>>]
    /\ UNCHANGED <<variant, at, history, createCall>>
    /\ HandlersOnly

\* The completion stream of request r ends and OpenAIStream calls onCompletion.
StreamCompletes(r) ==
    /\ phase[r] = "streaming"
    /\ phase' = [phase EXCEPT ![r] = "callback"]
    /\ UNCHANGED <<variant, at, outcome, history, createCall, topHistory>>
    /\ HandlersOnly

\* The next await chatHistory.addMessage of onCompletion resolves.
CallbackWrite(r) ==
    /\ phase[r] = "callback"
    /\ history' = AddMessage(history, OnCompletion(variant[r])[at[r]], r)
    /\ IF at[r] = Len(OnCompletion(variant[r]))
       THEN /\ phase' = [phase EXCEPT ![r] = "completed"]
            /\ UNCHANGED at
       ELSE /\ at' = [at EXCEPT ![r] = at[r] + 1]
            /\ UNCHANGED phase
    /\ UNCHANGED <<variant, outcome, createCall, topHistory>>
    /\ HandlersOnly

\* Requests of one chat thread, each served by one of the handlers.
HandlersInit ==
    /\ variant \in [1..MaxRequests -> Variants]
    /\ at = [r \in 1..MaxRequests |-> 1]
    /\ phase = [r \in 1..MaxRequests |-> "handler"]
    /\ outcome = [r \in 1..MaxRequests |-> "pending"]
    /\ history = <<>>
    /\ createCall = [r \in 1..MaxRequests |-> NoCreate]
    /\ topHistory = [r \in 1..MaxRequests |-> <<>>]

\* Requests on a chat thread that may hold the messages of earlier requests,
\* the first of them a simple request.
WindowInit ==
    /\ variant \in {v \in [1..MaxRequests -> Variants] : v[1] = "simple"}
    /\ at = [r \in 1..MaxRequests |-> 1]
    /\ phase = [r \in 1..MaxRequests |-> "handler"]
    /\ outcome = [r \in 1..MaxRequests |-> "pending"]
    /\ history \in {PriorThread(n) : n \in {0, WindowSize - 1}}
    /\ createCall = [r \in 1..MaxRequests |-> NoCreate]
    /\ topHistory = [r \in 1..MaxRequests |-> <<>>]

\* No request.
HandlersIdle ==
    /\ variant = <<>>
    /\ at = <<>>
    /\ phase = <<>>
    /\ outcome = <<>>
    /\ history = <<>>
    /\ createCall = <<>>
    /\ topHistory = <<>>

----------------------------------------------------------------------------
(* Specifications *)

ValidDocA == [source |-> "src", deptName |-> "deptA", id |-> "1"]

\* The rewriter on an arbitrary completion, one valid document retrieved.
Init ==
    /\ relevantDocuments = <<ValidDocA>>
    /\ RewriterInit
    /\ EvidenceIdle
    /\ HandlersIdle
    /\ EnricherIdle
    /\ SelectorIdle

Next == Transform \/ Flush

Spec == Init /\ [][Next]_vars

\* The rewriter on ModelAnswer, for every result of the similarity search.
InitCitation ==
    /\ relevantDocuments \in DocLists(MaxDocs)
    /\ RewriterInit
    /\ EvidenceIdle
    /\ HandlersIdle
    /\ EnricherIdle
    /\ SelectorIdle

NextCitation == ScriptedTransform \/ Flush \/ RecordCompletion

SpecCitation == InitCitation /\ [][NextCitation]_vars

\* The evidence collector of one web request.
InitEvidence ==
    /\ EvidenceInit
    /\ RewriterIdle
    /\ HandlersIdle
    /\ EnricherIdle
    /\ SelectorIdle

NextEvidence ==
    \/ \E i \in 1..MaxPages :
          \/ Launch(i)
          \/ NewPage(i)
          \/ Goto(i)
          \/ EvaluateText(i)
          \/ EvaluateDate(i)
          \/ Close(i)
          \/ CloseAfterError(i)
    \/ PromiseAllSettles
    \/ IssueCompletion
    \/ AddMessageRejects

SpecEvidence == InitEvidence /\ [][NextEvidence]_vars

\* Concurrent requests on one chat thread.
InitHandlers ==
    /\ HandlersInit
    /\ RewriterIdle
    /\ EvidenceIdle
    /\ EnricherIdle
    /\ SelectorIdle

NextHandlers ==
    \E r \in 1..MaxRequests :
       \/ Resolve(r)
       \/ Reject(r)
       \/ StreamCompletes(r)
       \/ CallbackWrite(r)

SpecHandlers == InitHandlers /\ [][NextHandlers]_vars

\* Concurrent requests on a chat thread with earlier messages.
InitWindow ==
    /\ WindowInit
    /\ RewriterIdle
    /\ EvidenceIdle
    /\ EnricherIdle
    /\ SelectorIdle

SpecWindow == InitWindow /\ [][NextHandlers]_vars

\* The query enricher of one web request.
InitEnricher ==
    /\ EnricherInit
    /\ RewriterIdle
    /\ EvidenceIdle
    /\ HandlersIdle
    /\ SelectorIdle

NextEnricher == GetJapanDateTime \/ OptimizeSearchQuery \/ SearchWeb

SpecEnricher == InitEnricher /\ [][NextEnricher]_vars

\* The retrieval selector of one document request.
InitSelector ==
    /\ SelectorInit
    /\ RewriterIdle
    /\ EvidenceIdle
    /\ HandlersIdle
    /\ EnricherIdle

NextSelector == FindRelevantDocuments \/ SimilaritySearchReturns

SpecSelector == InitSelector /\ [][NextSelector]_vars

----------------------------------------------------------------------------
(* What the claims speak of, stated without the operators above *)

\* The retrieval hits that have both a source and a deptName, by position.
ValidIndexes(docs) ==
    {i \in 1..Len(docs) : docs[i].source # "" /\ docs[i].deptName # ""}

\* The serialized items of the valid hits from position i on, in retrieval
\* order; `first` tells whether no item has been written yet.
RECURSIVE ItemsFrom(_, _, _)
ItemsFrom(docs, i, first) ==
    IF i > Len(docs) THEN <<>>
    ELSE IF i \in ValidIndexes(docs)
    THEN (IF first THEN <<>> ELSE <<",">>)
         \o <<"{\"name\":\"", docs[i].deptName, "\",\"id\":\"", docs[i].id, "\"}">>
         \o ItemsFrom(docs, i + 1, FALSE)
    ELSE ItemsFrom(docs, i + 1, first)

PlaceholderText ==
    <<"{\"name\":\"", "Document Not Found", "\",\"id\":\"", "unknown", "\"}">>

\* The item list a marker must carry for these retrieval hits.
ExpectedItems(docs) ==
    IF ValidIndexes(docs) = {} THEN PlaceholderText ELSE ItemsFrom(docs, 1, TRUE)

\* The marker the client must receive for these retrieval hits.
ExpectedMarker(docs) ==
    <<"{%", " ", "citation", " items=", "[">> \o ExpectedItems(docs)
        \o <<"]", " ", "/%}">>

\* 0-based position just past the first closing token at or after position i
\* of s, or -1 when there is none.
EndOfMarker(s, i) ==
    IF Includes(Slice(s, i), CLOSE)
    THEN i + IndexOf(Slice(s, i), CLOSE) + Len(CLOSE)
    ELSE -1

\* s with every complete marker (an opening token through the next closing
\* token) replaced by `fresh`, everything else kept.
RECURSIVE Rewritten(_, _)
Rewritten(s, fresh) ==
    IF s = <<>> THEN <<>>
    ELSE IF OccursAt(s, OPEN, 0) /\ EndOfMarker(s, Len(OPEN)) >= 0
    THEN fresh \o Rewritten(Slice(s, EndOfMarker(s, Len(OPEN))), fresh)
    ELSE <<Head(s)>> \o Rewritten(Tail(s), fresh)

\* The buffer the latest transform call worked on: the old buffer and the chunk.
LastInput == last.before \o last.text

----------------------------------------------------------------------------
(* C1 *)

\* C1: when the stream has ended, everything forwarded, concatenated, is the
\* completion with each complete citation marker replaced by the freshly
\* serialized marker and all other text kept once, unchanged and in order.
C1_WholeStreamResult ==
    streamState = "ended"
        => forwarded = Rewritten(completion, ExpectedMarker(relevantDocuments))

----------------------------------------------------------------------------
(* C2 *)

\* C2: a transform step that leaves an opening token without a closing token
\* in the buffer forwards nothing; the step whose chunk brings the closing
\* token forwards the text before the opening token, the fresh marker and the
\* text after the closing token, in this order, and leaves the buffer empty.
C2_MarkerSpanningChunks ==
    /\ (last.op = "transform" /\ Includes(buffer, OPEN) /\ ~Includes(buffer, CLOSE))
          => last.enq = <<>>
    /\ (/\ last.op = "transform"
        /\ Includes(last.before, OPEN)
        /\ ~Includes(last.before, CLOSE)
        /\ Includes(last.text, CLOSE))
          => /\ Concat(last.enq) =
                    SubSeq(LastInput, 1, IndexOf(LastInput, OPEN))
                    \o ExpectedMarker(relevantDocuments)
                    \o Slice(LastInput, EndOfMarker(LastInput, 0))
             /\ buffer = <<>>

----------------------------------------------------------------------------
(* C3 *)

\* C3: as long as the completion holds no opening token, every transform step
\* forwards its chunk as exactly one chunk with the same text and leaves the
\* buffer empty, and the end of the stream forwards nothing more.
C3_NoMarkerChunkForChunk ==
    ~Includes(completion, OPEN)
        => /\ buffer = <<>>
           /\ last.op = "transform" => last.enq = <<last.text>>
           /\ last.op = "flush" => last.enq = <<>>

\* Two chunks without an opening token have passed, the second one holding
\* the pieces of one ("{%" and "citation" without the blank) and a closing token.
C3_Witness ==
    /\ last.op = "transform"
    /\ ~Includes(completion, OPEN)
    /\ Len(completion) > Len(last.text)
    /\ last.text = <<OpenBrace, CitationWord, CloseToken>>
    /\ last.enq = <<last.text>>

----------------------------------------------------------------------------
(* C4 *)

\* C4: every complete marker in the text forwarded to the client is the
\* serialization of the valid retrieval hits (or of the placeholder), however
\* the stream cuts the model's marker into chunks.
C4_ForwardedMarkersAreFresh ==
    \A i \in 0..Len(forwarded) :
        (OccursAt(forwarded, OPEN, i) /\ EndOfMarker(forwarded, i) >= 0)
            => SubSeq(forwarded, i + 1, EndOfMarker(forwarded, i))
                   = ExpectedMarker(relevantDocuments)

----------------------------------------------------------------------------
(* C5 *)

\* The number of valid hits at positions up to i.
Rank(docs, i) == Cardinality({k \in ValidIndexes(docs) : k <= i})

\* C5: the citation candidates are the valid retrieval hits, one item each, in
\* retrieval order, named by deptName and carrying the id; a marker the
\* transformer emits carries their serialization, or exactly the placeholder
\* item when no hit is valid.
C5_CandidatesAndPlaceholder ==
    /\ Len(citationData) = Cardinality(ValidIndexes(relevantDocuments))
    /\ \A i \in ValidIndexes(relevantDocuments) :
          /\ citationData[Rank(relevantDocuments, i)].name
                 = relevantDocuments[i].deptName
          /\ citationData[Rank(relevantDocuments, i)].id = relevantDocuments[i].id
    /\ last.op = "transform" =>
          \A j \in 1..Len(last.enq) :
              OccursAt(last.enq[j], OPEN, 0)
                  => last.enq[j] = ExpectedMarker(relevantDocuments)

\* A marker has been emitted for a search that returned an invalid hit
\* followed by a valid one.
C5_Witness ==
    /\ Len(relevantDocuments) = 2
    /\ ValidIndexes(relevantDocuments) = {2}
    /\ last.op = "transform"
    /\ \E j \in 1..Len(last.enq) : OccursAt(last.enq[j], OPEN, 0)

----------------------------------------------------------------------------
(* C6 *)

----------------------------------------------------------------------------
(* C7 *)

\* C7: the batch never becomes an error; once the collector has returned, the
\* evidence list has one record per search result, record i built from search
\* result i, a failed page's record holding the snippet as content and the
\* search result's date or none; and the completion call is issued only when
\* every page's task has settled.
C7_OneRecordPerResultInOrder ==
    /\ webStage # "error500"
    /\ webStage \in {"collected", "completionIssued"} =>
          /\ Len(webPageContents) = Len(searchValue)
          /\ \A i \in 1..Len(searchValue) :
                /\ webPageContents[i].page = i
                /\ task[i].failed =>
                      /\ webPageContents[i].content = "snippet"
                      /\ webPageContents[i].publishDate =
                            (IF searchValue[i].datePublished THEN "search"
                             ELSE "none")
    /\ webStage = "completionIssued" =>
          \A i \in 1..Len(searchValue) : task[i].pc = "done"

\* The completion call is issued for two search results, of which the second
\* settled first and the first failed.
C7_Witness ==
    /\ webStage = "completionIssued"
    /\ Len(searchValue) = 2
    /\ settleOrder = <<2, 1>>
    /\ task[1].failed
    /\ ~task[2].failed
    /\ webPageContents[2].content = "page"

----------------------------------------------------------------------------
(* C8 *)

\* C8: a page's browser is closed when the page's task has returned its
\* record, and no browser is open once the collector has returned.
C8_SessionsClosed ==
    /\ \A i \in DOMAIN task : task[i].pc = "done" => ~browserOpen[i]
    /\ webStage \in {"collected", "completionIssued"} =>
          \A i \in DOMAIN browserOpen : ~browserOpen[i]

----------------------------------------------------------------------------
(* C9 *)

\* C9: in every variant a failure of a collaborator call makes the handler
\* return the 500 response; no exception escapes the handler.
C9_FailuresBecome500 ==
    \A r \in DOMAIN outcome :
        /\ outcome[r] # "escaped"
        /\ phase[r] = "returned" => outcome[r] = "500"

----------------------------------------------------------------------------
(* C10 *)

\* The positions in the thread of the messages of request r with this role.
Positions(role, r) ==
    {k \in 1..Len(history) : history[k] = [role |-> role, req |-> r]}

\* The completion call of request r has been issued.
CompletionIssued(r) ==
    \/ phase[r] \in {"streaming", "callback", "completed"}
    \/ phase[r] = "handler" /\ Handler(variant[r])[at[r]].call = "create"
    \/ phase[r] = "returned" /\ Handler(variant[r])[at[r]].call = "create"

\* C10: in the simple and web variants the user message is in the thread
\* when the completion call is issued; in the document variant it is not
\* there before the stream has ended; the assistant message is appended at
\* most once, only after the stream has ended and after the user message of
\* its request; a request whose completion callback has finished has added
\* exactly one user message and then exactly one assistant message, whatever
\* other requests appended in between.
C10_HistoryRecordingOrder ==
    \A r \in DOMAIN phase :
        /\ (variant[r] \in {"simple", "web"} /\ CompletionIssued(r))
              => Cardinality(Positions("user", r)) = 1
        /\ (variant[r] = "doc" /\ phase[r] \notin {"callback", "completed"})
              => Positions("user", r) = {}
        /\ Cardinality(Positions("user", r)) <= 1
        /\ Cardinality(Positions("assistant", r)) <= 1
        /\ Positions("assistant", r) # {}
              => /\ phase[r] \in {"callback", "completed"}
                 /\ \A a \in Positions("assistant", r) :
                       \E u \in Positions("user", r) : u < a
        /\ phase[r] = "completed"
              => /\ Cardinality(Positions("user", r)) = 1
                 /\ Cardinality(Positions("assistant", r)) = 1

\* Two requests have completed, the first of the document variant, and a
\* message of the second stands between the two messages of the first.
C10_Witness ==
    /\ \A r \in DOMAIN phase : phase[r] = "completed"
    /\ variant[1] = "doc"
    /\ \E u \in Positions("user", 1), a \in Positions("assistant", 1) :
          \E k \in (u + 1)..(a - 1) : history[k].req = 2

----------------------------------------------------------------------------
(* C21 *)

\* The completion call of request r has thrown.
CompletionFailed(r) ==
    phase[r] = "returned" /\ Handler(variant[r])[at[r]].call = "create"

\* The thread has only grown at its end.
HistoryAppended ==
    /\ Len(history') >= Len(history)
    /\ SubSeq(history', 1, Len(history)) = history

\* C21: when the completion call of a request has thrown, the thread holds
\* no message of that request in the document variant, and its user message
\* and no assistant message in the simple and web variants; an assistant
\* message is in the thread only when the completion callback of its
\* request has run; and no step removes or changes an entry of the thread.
C21_HistoryAfterFailedCompletion ==
    /\ [](\A r \in DOMAIN phase :
            /\ (CompletionFailed(r) /\ variant[r] = "doc")
                  => (Positions("user", r) = {} /\ Positions("assistant", r) = {})
            /\ (CompletionFailed(r) /\ variant[r] \in {"simple", "web"})
                  => /\ Cardinality(Positions("user", r)) = 1
                     /\ Positions("assistant", r) = {}
            /\ Positions("assistant", r) # {}
                  => phase[r] \in {"callback", "completed"})
    /\ [][HistoryAppended]_vars

\* The completion call of a simple request has thrown after another request
\* has written to the thread: the thread holds its user message and the
\* messages of the other request.
C21_Witness ==
    /\ variant[1] = "simple"
    /\ CompletionFailed(1)
    /\ Positions("user", 1) # {}
    /\ Positions("assistant", 2) # {}

----------------------------------------------------------------------------
(* C22 *)

\* The last n entries of the thread, or all of them when there are fewer.
LastOf(thread, n) ==
    IF Len(thread) <= n THEN thread
    ELSE [k \in 1..n |-> thread[Len(thread) - n + k]]

\* C22: the history window a simple request sends with its completion call
\* is the last min(30, n) messages of the thread as stored at that moment,
\* and its final message is the user message of that request, whatever
\* other requests on the thread have appended in the meantime.
C22_WindowEndsWithOwnMessage ==
    [][\A r \in DOMAIN phase :
          (/\ variant[r] = "simple"
           /\ phase[r] = "handler"
           /\ Handler(variant[r])[at[r]].call = "getMessages"
           /\ at'[r] = at[r] + 1)
            => /\ topHistory'[r] = LastOf(history', 30)
               /\ topHistory'[r] # <<>>
               /\ topHistory'[r][Len(topHistory'[r])]
                     = [role |-> "user", req |-> r]]_vars

----------------------------------------------------------------------------
(* C19 *)

\* C19: after every transform step the buffer is empty or holds an opening
\* token with no closing token after it; no opening token in the buffer is
\* followed by a closing token; and a step that forwards text leaves none
\* of it in the buffer.
C19_TwoStateBuffer ==
    last.op = "transform" =>
        /\ buffer # <<>> => Includes(buffer, OPEN)
        /\ \A i \in 0..Len(buffer) :
              OccursAt(buffer, OPEN, i)
                  => ~Includes(Slice(buffer, i + Len(OPEN)), CLOSE)
        /\ last.enq # <<>> => buffer = <<>>

----------------------------------------------------------------------------
(* C20 *)

\* The retrieval hits that have both fields, in retrieval order.
RECURSIVE ValidHitsFrom(_, _)
ValidHitsFrom(docs, i) ==
    IF i > Len(docs) THEN <<>>
    ELSE (IF i \in ValidIndexes(docs) THEN <<docs[i]>> ELSE <<>>)
         \o ValidHitsFrom(docs, i + 1)

\* C20: what the document variant writes to the history store when the
\* stream has ended is the user message and then one assistant message whose
\* text is the completion as the model wrote it, with the context built
\* from the valid retrieval hits; the text forwarded to the client, markers
\* rewritten, is not what is stored.
C20_StoredTextIsCompletion ==
    history # <<>> =>
        /\ Len(history) = 2
        /\ history[1].role = "user"
        /\ history[2].role = "assistant"
        /\ history[2].content = completion
        /\ history[2].context = ValidHitsFrom(relevantDocuments, 1)

\* The answer has been stored after its marker was rewritten on the way to
\* the client.
C20_Witness ==
    /\ history # <<>>
    /\ completion = <<"x", "{%", " ", "citation", "x", "/%}", "x">>
    /\ forwarded # completion
    /\ Len(relevantDocuments) = 1
    /\ history[2].content = completion

----------------------------------------------------------------------------
(* What the claims about the query enricher speak of *)

\* The texts that are a temporal reference: today (two ways), at present,
\* latest, a written date, yesterday, this week, this month, this year,
\* recently, most recent.
TemporalTexts ==
    { <<"ima", "nichi">>, <<"honjitsu">>, <<"genzai">>, <<"saishin">>,
      <<"1-getsu-1-nichi">>, <<"kinou">>,
      <<"ima", "shuu">>, <<"ima", "getsu">>, <<"ima", "nen">>,
      <<"saikin">>, <<"chokkin">> }

\* The texts the code takes for a reference to the immediate present.
ImmediacyTexts == { <<"saishin">>, <<"genzai">>, <<"ima">>, <<"honjitsu">> }

\* Whether one of the texts occurs in the message.
Mentions(text, texts) ==
    \E t \in texts : \E i \in 0..Len(text) : OccursAt(text, t, i)

\* A message whose only temporal reference is this week.
MentionsOnlyThisWeek(text) ==
    /\ \E i \in 0..Len(text) : OccursAt(text, <<"ima", "shuu">>, i)
    /\ \A i \in 1..Len(text) :
          /\ text[i] \in {"ima", "shuu", "x"}
          /\ text[i] = "ima" => (i < Len(text) /\ text[i + 1] = "shuu")

\* The day in Asia/Tokyo at the instant the request arrives, counted from
\* 1970-01-01.
TokyoDay == (now + 9) \div 24

\* The civil dates of the days on which requests arrive.
CivilDate(day) ==
    CASE day = 20088 -> [year |-> "2024", month |-> "12", iso |-> "2024-12-31"]
      [] day = 20089 -> [year |-> "2025", month |-> "1", iso |-> "2025-01-01"]

\* The year/month text of the day in Tokyo.
ExpectedSuffix ==
    <<" ", CivilDate(TokyoDay).year, "nen", CivilDate(TokyoDay).month, "getsu">>

\* What optimizeSearchQuery has put behind the message.
Appended == SubSeq(optimizedQuery, Len(message) + 1, Len(optimizedQuery))

Optimized == queryStage \in {"optimized", "searched"}

SuffixAppended == \E i \in 1..Len(Appended) : Appended[i] = "nen"

AfterTokenAppended == \E i \in 1..Len(Appended) : Appended[i] = "after:"

\* The date of the after: token, the last piece of the query.
AfterDate == optimizedQuery[Len(optimizedQuery)]

----------------------------------------------------------------------------
(* C11 *)

\* C11: the enriched query starts with the message; for a message with a
\* temporal reference it goes on with the year and month of the day in Tokyo
\* at the supplied time, and for a message without one no year/month text
\* is added.
C11_YearMonthSuffix ==
    Optimized =>
        /\ SubSeq(optimizedQuery, 1, Len(message)) = message
        /\ Mentions(message, TemporalTexts)
              => OccursAt(optimizedQuery, ExpectedSuffix, Len(message))
        /\ ~Mentions(message, TemporalTexts) => ~SuffixAppended

\* A message that only says yesterday has been enriched after midnight of
\* the new year in Tokyo, on a server that runs on Japan time.
C11_Witness ==
    /\ queryStage = "optimized"
    /\ message = <<"kinou">>
    /\ serverOffset = 9
    /\ optimizedQuery = <<"kinou", " ", "2025", "nen", "1", "getsu">>

----------------------------------------------------------------------------
(* C12 *)

\* C12: the freshness of the search call is "Day" for every message with a
\* reference to the immediate present and "Week" for every other message, in
\* particular for a message whose only temporal reference is this week; and
\* it is "Day" exactly when the after: token was appended to the query.
C12_FreshnessClassifier ==
    queryStage = "searched" =>
        /\ Mentions(message, ImmediacyTexts) => freshness = "Day"
        /\ ~Mentions(message, ImmediacyTexts) => freshness = "Week"
        /\ MentionsOnlyThisWeek(message) => freshness = "Week"
        /\ freshness = "Day" <=> AfterTokenAppended

----------------------------------------------------------------------------
(* C13 *)

\* C13: enriching the enriched query again at the same current time returns
\* it unchanged.
C13_EnrichmentIdempotent ==
    Optimized =>
        optimizeSearchQuery(optimizedQuery, jpDateTime, serverOffset)
            = optimizedQuery

----------------------------------------------------------------------------
(* C14 *)

\* A department name written as a string literal of the filter language:
\* between apostrophes, with every apostrophe of the name written twice.
RECURSIVE Doubled(_)
Doubled(name) ==
    IF name = <<>> THEN <<>>
    ELSE (IF Head(name) = "'" THEN <<"'", "'">> ELSE <<Head(name)>>)
         \o Doubled(Tail(name))

Literal(name) == <<"'">> \o Doubled(name) \o <<"'">>

\* C14: once the selector has called the search there is exactly one call,
\* asking for 15 matches; for scope "all" its filter is the document-type
\* clause alone, for every other scope value the document-type clause and an
\* equality clause on that department name.
C14_RetrievalFilter ==
    retrievalStage \in {"searching", "returned"} =>
        /\ Len(searchCalls) = 1
        /\ searchCalls[1].k = 15
        /\ searchCalls[1].filter =
              IF chatDoc = <<"all">>
              THEN <<"chatType eq ", "'", "doc", "'">>
              ELSE <<"chatType eq ", "'", "doc", "'", " and deptName eq ">>
                       \o Literal(chatDoc)

----------------------------------------------------------------------------
(* C15 *)

Holds(block) == \E i \in 1..Len(Prompt) : Prompt[i] = block

\* C15: a request issues at most one completion call; when it has issued
\* it, the prompt holds the notice of no search results and no summary block
\* if there is no evidence record (no response, no webPages field or an
\* empty result list), and the summary block and no notice if there is one;
\* and a search without results leads straight to the completion call.
C15_NoEvidencePrompt ==
    /\ completionCalls <= 1
    /\ webStage = "completionIssued" =>
          /\ completionCalls = 1
          /\ Len(webPageContents) = 0
                => (Holds("NoSearchResults") /\ ~Holds("WebSearchSummary"))
          /\ Len(webPageContents) > 0
                => (Holds("WebSearchSummary") /\ ~Holds("NoSearchResults"))
    /\ Len(searchValue) = 0 =>
          webStage \in {"collecting", "collected", "completionIssued",
                        "failed500"}
    /\ (Len(searchValue) = 0 /\ webStage = "failed500") => completionCalls = 0

\* The completion call has been issued for a search result without the
\* webPages field.
C15_Witness ==
    /\ searchResult = "noWebPages"
    /\ webStage = "completionIssued"
    /\ completionCalls = 1
    /\ Holds("NoSearchResults")

----------------------------------------------------------------------------
(* C16 *)

\* C16: in every variant and for every value of the request's model flag the
\* completion call names the one fixed lightweight model.
C16_OneFixedModel ==
    \A r \in DOMAIN createCall :
        createCall[r].model \in {"", "gpt-4o-mini"}

----------------------------------------------------------------------------
(* C17 *)

\* C17: the date of the after: token is the civil date in Asia/Tokyo at the
\* instant of the request, at every hour of the day and on every server, and
\* its year and month are those of the year/month suffix of the same query.
C17_AfterDateIsTokyoDate ==
    (Optimized /\ AfterTokenAppended) =>
        /\ AfterDate = CivilDate(TokyoDay).iso
        /\ SuffixAppended =>
              \E day \in {20088, 20089} :
                  /\ AfterDate = CivilDate(day).iso
                  /\ OccursAt(optimizedQuery,
                              <<CivilDate(day).year, "nen",
                                CivilDate(day).month, "getsu">>,
                              Len(message) + 1)

----------------------------------------------------------------------------
(* C18 *)

\* C18: every message with a reference to the immediate present has a
\* temporal reference, so a query that got the after: token (and whose
\* search runs with freshness "Day") got the year/month suffix as well.
C18_ImmediacyWithinTemporal ==
    /\ Optimized => (AfterTokenAppended => SuffixAppended)
    /\ queryStage = "searched" => (freshness = "Day" => SuffixAppended)
====
